---- MODULE Spec2Model ----
(***************************************************************************)
(* The NBA backend: the in-memory stores (NBA store, event log, processed  *)
(* event ledger), the calculation event queue with its single worker, and  *)
(* the action requests that run on thread-pool threads.                    *)
(*                                                                         *)
(* The worker runs CalculationEventService.process on the event loop; the  *)
(* action requests (submit_action is a plain `def` route) run on other     *)
(* threads, so their store reads and writes interleave with the worker's   *)
(* and with each other's.  Every read of shared state and every write of   *)
(* shared state is one step; computation on locals is folded into the step *)
(* that precedes it.                                                       *)
(***************************************************************************)
EXTENDS Integers, Sequences, FiniteSets, TLC

\* ---------------------------------------------------------------- bounds
MaxEvents == 2
MaxQueue == 2
MaxDeact == 1
MaxList == 3
MaxLimit == 2
MaxOffset == 2
NumThreads == 2
MaxLog == 3
MaxIds == 3
MaxEntries == 3

\* ------------------------------------------------------------- constants
NBA_STATUS_NEW == "new"
NBA_STATUS_ACCEPTED == "accepted"
NBA_STATUS_REJECTED == "rejected"
ACTION_STATUSES == {NBA_STATUS_ACCEPTED, NBA_STATUS_REJECTED}
NBA_STATUSES == {NBA_STATUS_NEW, NBA_STATUS_ACCEPTED, NBA_STATUS_REJECTED}
DEFAULT_USER == "system"

\* Python's None.
None == "None"

EventIds == 1..MaxEvents
Threads == 1..NumThreads
\* An id no record ever has (a caller may name any string).
MissingId == 0

\* The (nba_definition_id, enterprise_number, account_id, contact_id) tuples
\* the events carry; validate_targets requires one non-null target.
Scopes ==
    { [nba_definition_id |-> "d1", enterprise_number |-> "e1", account_id |-> None, contact_id |-> None],
      [nba_definition_id |-> "d1", enterprise_number |-> "e1", account_id |-> "a1", contact_id |-> None] }

\* ----------------------------------------------------------------- state
VARIABLES
    nbas,             \* InMemoryNbaRepository._nbas, in insertion order; a record's id is its index
    event_to_nba_id,  \* InMemoryNbaRepository._event_to_nba_id (0: no entry)
    events,           \* InMemoryNbaEventLogRepository._events
    processed,        \* InMemoryProcessedEventRepository._processed
    queue,            \* InMemoryCalculationEventQueue._queue
    wpc,              \* where the worker is
    cur,              \* the payload the worker is processing
    wi,               \* the worker's loop index
    wexisting,        \* `existing` of deactivate_nbas_by_ids
    wsnap,            \* list(self._nbas.items()) of deactivate_other_active_new_for_scope
    wnba,             \* `nba` of process: the id of the upserted record
    wres,             \* what the last process call returned
    apc,              \* where each action request is
    aargs,            \* its nba_id and status_value, while it runs
    aexisting,        \* `existing` of update_status
    ares,             \* what the thread's last request returned
    qres,             \* the last list request and what it returned
    rres,             \* the last call made on a repository alone and what it returned
    liter,            \* the list request that is iterating self._nbas.values()
    life              \* where lifespan is

storeVars == <<nbas, event_to_nba_id, events, processed>>
workerVars == <<wpc, cur, wi, wexisting, wsnap, wnba, wres>>
threadVars == <<apc, aargs, aexisting, ares>>
vars == <<nbas, event_to_nba_id, events, processed, queue,
          wpc, cur, wi, wexisting, wsnap, wnba, wres,
          apc, aargs, aexisting, ares, qres, rres, liter, life>>

\* Python's None where a record is expected.
NoRecord == [none |-> TRUE]
NoPayload == [event_id |-> 0]
\* queue_worker's "queue.processed" line: event_id, action, nba_id.
Result(event_id, action, nba_id) ==
    [event_id |-> event_id, action |-> action, nba_id |-> nba_id]
NoResult == Result(0, "none", 0)
NoArgs == [nba_id |-> MissingId, status_value |-> "none"]
\* The not-found case raised with the conflict status code.
AnswerConflictForNotFound(kind, event) ==
    IF kind = "ok"
    THEN [kind |-> kind, event_id |-> event.id, nba_id |-> event.nba_id, status |-> event.status]
    ELSE [kind |-> IF kind = "not_found" THEN "conflict" ELSE kind,
          event_id |-> 0, nba_id |-> MissingId, status |-> "none"]

\* submit_action's response: the NbaActionResponse of the returned log entry
\* (201), or the HTTPException's status code alone.
Answer(kind, event) ==
    IF kind = "ok"
    THEN [kind |-> kind, event_id |-> event.id, nba_id |-> event.nba_id, status |-> event.status]
    ELSE [kind |-> kind, event_id |-> 0, nba_id |-> MissingId, status |-> "none"]
NoAnswer == Answer("none", NoRecord)
NoList == [none |-> TRUE]
NoCall == [call |-> "none"]
NoIter == [none |-> TRUE]
\* A list request ended by RuntimeError("dictionary changed size during
\* iteration"), raised by the iterator of self._nbas.values().
ListFailed == [error |-> "RuntimeError"]

\* ------------------------------------------------------- domain records
\* NbaRecord(...) as upsert_from_calculation_event builds it: active and
\* status take the dataclass defaults.
NbaRecord(scope, created_at) ==
    [nba_definition_id |-> scope.nba_definition_id,
     enterprise_number |-> scope.enterprise_number,
     account_id |-> scope.account_id,
     contact_id |-> scope.contact_id,
     active |-> TRUE,
     status |-> NBA_STATUS_NEW,
     created_at |-> created_at]

NbaEventLogRecord(id, nba_id, status, acted_by) ==
    [id |-> id, nba_id |-> nba_id, status |-> status, acted_by |-> acted_by]

ScopeOf(r) ==
    [nba_definition_id |-> r.nba_definition_id,
     enterprise_number |-> r.enterprise_number,
     account_id |-> r.account_id,
     contact_id |-> r.contact_id]

\* ---------------------------------------------------------- NBA store
get_nba(store, nba_id) ==
    IF nba_id \in DOMAIN store THEN store[nba_id] ELSE NoRecord

\* dict.fromkeys(nba_ids): the ids once each, in order of first occurrence.
RECURSIVE FromKeys(_)
FromKeys(ids) ==
    IF ids = <<>> THEN <<>>
    ELSE LET init == FromKeys(SubSeq(ids, 1, Len(ids) - 1))
             last == ids[Len(ids)]
         IN  IF \E k \in DOMAIN init : init[k] = last THEN init
             ELSE Append(init, last)

\* The loop's test with `not existing.active` written `existing.active`:
\* the active records are the ones skipped.
SupersedeMatchSkipsActive(nba_id, existing, keep_nba_id, scope) ==
    /\ nba_id # keep_nba_id
    /\ ~existing.active
    /\ existing.status = NBA_STATUS_NEW
    /\ ScopeOf(existing) = scope

\* The loop's test with a null argument taken as "any value".
SupersedeMatchNullAny(nba_id, existing, keep_nba_id, scope) ==
    /\ nba_id # keep_nba_id
    /\ existing.active
    /\ existing.status = NBA_STATUS_NEW
    /\ existing.nba_definition_id = scope.nba_definition_id
    /\ (scope.enterprise_number = None \/ existing.enterprise_number = scope.enterprise_number)
    /\ (scope.account_id = None \/ existing.account_id = scope.account_id)
    /\ (scope.contact_id = None \/ existing.contact_id = scope.contact_id)

\* The loop's test without `if nba_id == keep_nba_id: continue`.
SupersedeMatchIncludesKept(nba_id, existing, keep_nba_id, scope) ==
    /\ existing.active
    /\ existing.status = NBA_STATUS_NEW
    /\ ScopeOf(existing) = scope

\* The test of one loop iteration of deactivate_other_active_new_for_scope,
\* on the (nba_id, existing) pair of the snapshot.
SupersedeMatch(nba_id, existing, keep_nba_id, scope) ==
    /\ nba_id # keep_nba_id
    /\ existing.active
    /\ existing.status = NBA_STATUS_NEW
    /\ existing.nba_definition_id = scope.nba_definition_id
    /\ existing.enterprise_number = scope.enterprise_number
    /\ existing.account_id = scope.account_id
    /\ existing.contact_id = scope.contact_id

\* A loop that writes nothing.
NextSupersedeNone(snap, from, keep_nba_id, scope) == 0

\* The first snapshot position from `from` on that the loop writes (0: none).
NextSupersede(snap, from, keep_nba_id, scope) ==
    LET hits == { k \in from..Len(snap) : SupersedeMatch(k, snap[k], keep_nba_id, scope) }
    IN  IF hits = {} THEN 0 ELSE CHOOSE k \in hits : \A j \in hits : k <= j

\* deactivate_other_active_new_for_scope: the store and the counter after
\* the first n pairs of the snapshot.
RECURSIVE SupersedeLoop(_, _, _, _, _)
SupersedeLoop(store, snap, n, keep_nba_id, scope) ==
    IF n = 0 THEN [nbas |-> store, deactivated |-> 0]
    ELSE LET prev == SupersedeLoop(store, snap, n - 1, keep_nba_id, scope)
         IN  IF SupersedeMatch(n, snap[n], keep_nba_id, scope)
             THEN [nbas |-> [prev.nbas EXCEPT ![n] = [snap[n] EXCEPT !.active = FALSE]],
                   deactivated |-> prev.deactivated + 1]
             ELSE prev

\* deactivate_other_active_new_for_scope, run from its first line to its
\* return: the store it leaves and the number it returns.
deactivate_other_active_new_for_scope(store, keep_nba_id, scope) ==
    SupersedeLoop(store, store, Len(store), keep_nba_id, scope)

\* deactivate_nbas_by_ids: the store and the counter after the first n
\* iterations of the loop over `keys`.
RECURSIVE DeactivateLoop(_, _, _)
DeactivateLoop(store, keys, n) ==
    IF n = 0 THEN [nbas |-> store, deactivated |-> 0]
    ELSE LET prev == DeactivateLoop(store, keys, n - 1)
             existing == get_nba(prev.nbas, keys[n])
         IN  IF existing = NoRecord \/ ~existing.active
             THEN prev
             ELSE [nbas |-> [prev.nbas EXCEPT ![keys[n]] = [existing EXCEPT !.active = FALSE]],
                   deactivated |-> prev.deactivated + 1]

\* deactivate_nbas_by_ids returning the number of ids it was given.
deactivate_nbas_by_ids_counts_ids(store, nba_ids) ==
    [nbas |-> DeactivateLoop(store, FromKeys(nba_ids), Len(FromKeys(nba_ids))).nbas,
     deactivated |-> Len(nba_ids)]

\* deactivate_nbas_by_ids, run from its first line to its return: the
\* store it leaves and the number it returns.
deactivate_nbas_by_ids(store, nba_ids) ==
    DeactivateLoop(store, FromKeys(nba_ids), Len(FromKeys(nba_ids)))

\* _match_identifiers
match_identifiers(nba, account_id, enterprise_number) ==
    /\ (account_id = None \/ nba.account_id = account_id)
    /\ (enterprise_number = None \/ nba.enterprise_number = enterprise_number)

\* The comprehension's test without `nba.active`.
ListMatchAnyActive(nba, account_id, enterprise_number, status) ==
    /\ match_identifiers(nba, account_id, enterprise_number)
    /\ (status = None \/ nba.status = status)

\* list_nbas: the comprehension's test.
ListMatch(nba, account_id, enterprise_number, status) ==
    /\ nba.active
    /\ match_identifiers(nba, account_id, enterprise_number)
    /\ (status = None \/ nba.status = status)

\* list_nbas: `filtered`, as ids in the order of self._nbas.values().
RECURSIVE Filtered(_, _, _, _, _)
Filtered(store, n, account_id, enterprise_number, status) ==
    IF n = 0 THEN <<>>
    ELSE LET init == Filtered(store, n - 1, account_id, enterprise_number, status)
         IN  IF ListMatch(store[n], account_id, enterprise_number, status)
             THEN Append(init, n) ELSE init

\* One insertion of list.sort(key=created_at, reverse=True): the sort is
\* stable, so x goes behind every element that is not older than it.
InsertDesc(store, sorted, x) ==
    LET ahead == { k \in DOMAIN sorted : store[sorted[k]].created_at >= store[x].created_at }
        n == Cardinality(ahead)
    IN  SubSeq(sorted, 1, n) \o <<x>> \o SubSeq(sorted, n + 1, Len(sorted))

\* filtered.sort(key=lambda n: n.created_at, reverse=True)
RECURSIVE SortDesc(_, _)
SortDesc(store, ids) ==
    IF ids = <<>> THEN <<>>
    ELSE InsertDesc(store, SortDesc(store, SubSeq(ids, 1, Len(ids) - 1)), ids[Len(ids)])

Min(a, b) == IF a <= b THEN a ELSE b

\* The slice written filtered[offset : limit].
SliceToLimit(seq, offset, limit) ==
    SubSeq(seq, offset + 1, Min(limit, Len(seq)))

\* filtered[offset : offset + limit]
Slice(seq, offset, limit) ==
    SubSeq(seq, offset + 1, Min(offset + limit, Len(seq)))

\* list_nbas: (the page, total)
list_nbas(store, account_id, enterprise_number, status, limit, offset) ==
    LET filtered == SortDesc(store, Filtered(store, Len(store), account_id, enterprise_number, status))
    IN  [items |-> Slice(filtered, offset, limit), total |-> Len(filtered)]

\* ---------------------------------------------------------- event log
\* Python's truth value of a `str | None`: None and the empty string are
\* false.
Truthy(v) == v \notin {None, ""}

find_action_event(log, nba_id, status) ==
    LET hits == { k \in DOMAIN log :
                    /\ log[k].nba_id = nba_id
                    /\ log[k].status = status
                    /\ Truthy(log[k].acted_by) }
    IN  IF hits = {} THEN NoRecord
        ELSE log[CHOOSE k \in hits : \A j \in hits : k <= j]

\* list_for_nba without its test.
list_for_nba_unfiltered(log, nba_id) == log

\* list_for_nba: [event for event in self._events if event.nba_id == nba_id]
list_for_nba(log, nba_id) ==
    SelectSeq(log, LAMBDA event : event.nba_id = nba_id)

\* ------------------------------------------------ processed-event ledger
\* is_processed as a ledger that answers for no event would.
is_processed_never(ledger, event_id) == FALSE

\* is_processed as a ledger that holds every event would.
is_processed_always(ledger, event_id) == TRUE

is_processed(ledger, event_id) == event_id \in ledger

\* ------------------------------------------------------------- payloads
\* deactivate_nba_ids names records the producer has seen, or ids that no
\* record has.
DeactLists ==
    UNION { [1..n -> (DOMAIN nbas) \cup {MissingId}] : n \in 0..MaxDeact }

Payload(e, s, c, d) ==
    [event_id |-> e, scope |-> s, create_nba |-> c, deactivate_nba_ids |-> d]

\* With create_nba false the scope is read by nothing: one scope stands for all.
Payloads ==
    { Payload(e, s, TRUE, d) : e \in EventIds, s \in Scopes, d \in DeactLists }
    \cup { Payload(e, CHOOSE s \in Scopes : s.account_id = None, FALSE, d) :
              e \in EventIds, d \in DeactLists }

CreatePayloads == { p \in Payloads : p.create_nba /\ p.deactivate_nba_ids = <<>> }

\* One payload per eventId: an eventId delivered again is the same event.
RedeliveredPayloads == { p \in CreatePayloads : p.scope.account_id = None }

Init ==
    /\ nbas = <<>>
    /\ event_to_nba_id = [e \in EventIds |-> 0]
    /\ events = <<>>
    /\ processed = {}
    /\ queue = <<>>
    /\ wpc = "consume"
    /\ cur = NoPayload
    /\ wi = 0
    /\ wexisting = NoRecord
    /\ wsnap = <<>>
    /\ wnba = 0
    /\ wres = NoResult
    /\ apc = [t \in Threads |-> "idle"]
    /\ aargs = [t \in Threads |-> NoArgs]
    /\ aexisting = [t \in Threads |-> NoRecord]
    /\ ares = [t \in Threads |-> NoAnswer]
    /\ qres = NoList
    /\ rres = NoCall
    /\ liter = NoIter
    /\ life = "serving"

\* ---------------------------------------------------------------- queue
\* enqueue_calculation_event: publish the validated payload.  The route is
\* a coroutine of the event loop, which process occupies from consume to
\* its return; the queue has no maxsize, MaxQueue bounds the model.
Enqueue ==
    /\ wpc \in {"consume", "dead"}
    /\ Len(queue) < MaxQueue
    /\ \E p \in Payloads : queue' = Append(queue, p)
    /\ UNCHANGED <<storeVars, workerVars, threadVars, qres, rres, liter, life>>

\* An event published to the empty queue while the worker waits in
\* queue.consume(): Enqueue followed at once by Consume.
Deliver(P) ==
    /\ wpc = "consume"
    /\ queue = <<>>
    /\ \E p \in P : cur' = p
    /\ wres' = NoResult
    /\ wpc' = "is_processed"
    /\ UNCHANGED <<storeVars, queue, wi, wexisting, wsnap, wnba, threadVars, qres, rres, liter, life>>

\* ---------------------------------------------------------------- worker
\* consume written to take the newest item of the queue.
ConsumeLast ==
    /\ wpc = "consume"
    /\ queue # <<>>
    /\ cur' = queue[Len(queue)]
    /\ queue' = SubSeq(queue, 1, Len(queue) - 1)
    /\ wres' = NoResult
    /\ wpc' = "is_processed"
    /\ UNCHANGED <<storeVars, wi, wexisting, wsnap, wnba, threadVars, qres, rres, liter, life>>

\* queue_worker: envelope = await queue.consume()
Consume ==
    /\ wpc = "consume"
    /\ queue # <<>>
    /\ cur' = Head(queue)
    /\ queue' = Tail(queue)
    /\ wres' = NoResult
    /\ wpc' = "is_processed"
    /\ UNCHANGED <<storeVars, wi, wexisting, wsnap, wnba, threadVars, qres, rres, liter, life>>

\* process without its `if not create_nba` return.
AfterDeactAlwaysCreates == "upsert"

\* Where process goes once the by-id deactivation is over.
AfterDeact == IF cur.create_nba THEN "upsert" ELSE "mark_only"

\* process: the is_processed test and the branch on deactivate_nba_ids.
IsProcessed ==
    /\ wpc = "is_processed"
    /\ IF is_processed(processed, cur.event_id)
       THEN /\ wres' = Result(cur.event_id, "duplicate_skipped", 0)
            /\ cur' = NoPayload
            /\ wpc' = "consume"
            /\ wi' = 0
       ELSE /\ wres' = wres
            /\ cur' = cur
            /\ IF cur.deactivate_nba_ids # <<>>
               THEN wpc' = "deact_read" /\ wi' = 1
               ELSE wpc' = AfterDeact /\ wi' = 0
    /\ UNCHANGED <<storeVars, queue, wexisting, wsnap, wnba, threadVars, qres, rres, liter, life>>

DeactIds == FromKeys(cur.deactivate_nba_ids)

\* deactivate_nbas_by_ids, one iteration: existing = self._nbas.get(nba_id)
DeactRead ==
    /\ wpc = "deact_read"
    /\ LET existing == get_nba(nbas, DeactIds[wi])
       IN  IF existing = NoRecord \/ ~existing.active
           THEN /\ wexisting' = NoRecord
                /\ IF wi < Len(DeactIds)
                   THEN wi' = wi + 1 /\ wpc' = "deact_read"
                   ELSE wi' = 0 /\ wpc' = AfterDeact
           ELSE /\ wexisting' = existing
                /\ wi' = wi
                /\ wpc' = "deact_write"
    /\ UNCHANGED <<storeVars, queue, cur, wsnap, wnba, wres, threadVars, qres, rres, liter, life>>

\* The write of deactivate_nbas_by_ids storing `existing` as it was read.
DeactWriteKeepsActive ==
    /\ wpc = "deact_write"
    /\ nbas' = [nbas EXCEPT ![DeactIds[wi]] = wexisting]
    /\ wexisting' = NoRecord
    /\ IF wi < Len(DeactIds)
       THEN wi' = wi + 1 /\ wpc' = "deact_read"
       ELSE wi' = 0 /\ wpc' = AfterDeact
    /\ UNCHANGED <<event_to_nba_id, events, processed, queue, cur, wsnap, wnba, wres, threadVars, qres, rres, liter, life>>

\* deactivate_nbas_by_ids: self._nbas[nba_id] = replace(existing, active=False)
DeactWrite ==
    /\ wpc = "deact_write"
    /\ nbas' = [nbas EXCEPT ![DeactIds[wi]] = [wexisting EXCEPT !.active = FALSE]]
    /\ wexisting' = NoRecord
    /\ IF wi < Len(DeactIds)
       THEN wi' = wi + 1 /\ wpc' = "deact_read"
       ELSE wi' = 0 /\ wpc' = AfterDeact
    /\ UNCHANGED <<event_to_nba_id, events, processed, queue, cur, wsnap, wnba, wres, threadVars, qres, rres, liter, life>>

\* process, create_nba false: mark_processed and return deactivated_only.
MarkOnly ==
    /\ wpc = "mark_only"
    /\ processed' = processed \cup {cur.event_id}
    /\ wres' = Result(cur.event_id, "deactivated_only", 0)
    /\ cur' = NoPayload
    /\ wpc' = "consume"
    /\ UNCHANGED <<nbas, event_to_nba_id, events, queue, wi, wexisting, wsnap, wnba, threadVars, qres, rres, liter, life>>

\* utc_now() at a record's creation, the clock having ticked since the
\* newest record's (ListStores below draws the stores whose records share a
\* created_at).
CreatedAts ==
    IF nbas = <<>> THEN {1}
    ELSE {nbas[Len(nbas)].created_at + 1}

\* upsert_from_calculation_event without its lookup of the eventId.
UpsertAlwaysCreates ==
    /\ wpc = "upsert"
    /\ \E created_at \in CreatedAts :
          nbas' = Append(nbas, NbaRecord(cur.scope, created_at))
    /\ event_to_nba_id' = [event_to_nba_id EXCEPT ![cur.event_id] = Len(nbas) + 1]
    /\ wnba' = Len(nbas) + 1
    /\ wpc' = "snapshot"
    /\ UNCHANGED <<events, processed, queue, cur, wi, wexisting, wsnap, wres, threadVars, qres, rres, liter, life>>

\* upsert_from_calculation_event
Upsert ==
    /\ wpc = "upsert"
    /\ IF event_to_nba_id[cur.event_id] # 0
       THEN /\ wnba' = event_to_nba_id[cur.event_id]
            /\ UNCHANGED <<nbas, event_to_nba_id>>
       ELSE /\ \E created_at \in CreatedAts :
                  nbas' = Append(nbas, NbaRecord(cur.scope, created_at))
            /\ event_to_nba_id' = [event_to_nba_id EXCEPT ![cur.event_id] = Len(nbas) + 1]
            /\ wnba' = Len(nbas) + 1
    /\ wpc' = "snapshot"
    /\ UNCHANGED <<events, processed, queue, cur, wi, wexisting, wsnap, wres, threadVars, qres, rres, liter, life>>

\* deactivate_other_active_new_for_scope: list(self._nbas.items())
Snapshot ==
    /\ wpc = "snapshot"
    /\ LET k == NextSupersede(nbas, 1, wnba, ScopeOf(nbas[wnba]))
       IN  IF k = 0
           THEN wpc' = "log_add" /\ wi' = 0 /\ wsnap' = <<>>
           ELSE wpc' = "supersede" /\ wi' = k /\ wsnap' = nbas
    /\ UNCHANGED <<storeVars, queue, cur, wexisting, wnba, wres, threadVars, qres, rres, liter, life>>

\* deactivate_other_active_new_for_scope, one iteration that writes:
\* self._nbas[nba_id] = replace(existing, active=False), `existing` being
\* the snapshot's record.
Supersede ==
    /\ wpc = "supersede"
    /\ nbas' = [nbas EXCEPT ![wi] = [wsnap[wi] EXCEPT !.active = FALSE]]
    /\ LET k == NextSupersede(wsnap, wi + 1, wnba, ScopeOf(wsnap[wnba]))
       IN  IF k = 0
           THEN wpc' = "log_add" /\ wi' = 0 /\ wsnap' = <<>>
           ELSE wpc' = "supersede" /\ wi' = k /\ wsnap' = wsnap
    /\ UNCHANGED <<event_to_nba_id, events, processed, queue, cur, wexisting, wnba, wres, threadVars, qres, rres, liter, life>>

\* process without its call of event_log_repo.add.
LogAddNothing ==
    /\ wpc = "log_add"
    /\ wpc' = "mark"
    /\ UNCHANGED <<storeVars, queue, cur, wi, wexisting, wsnap, wnba, wres, threadVars, qres, rres, liter, life>>

\* process: self._event_log_repo.add(NbaEventLogRecord(..., status=new))
LogAdd ==
    /\ wpc = "log_add"
    /\ events' = Append(events, NbaEventLogRecord(Len(events) + 1, wnba, NBA_STATUS_NEW, None))
    /\ wpc' = "mark"
    /\ UNCHANGED <<nbas, event_to_nba_id, processed, queue, cur, wi, wexisting, wsnap, wnba, wres, threadVars, qres, rres, liter, life>>

\* process: mark_processed and return created.
Mark ==
    /\ wpc = "mark"
    /\ processed' = processed \cup {cur.event_id}
    /\ wres' = Result(cur.event_id, "created", wnba)
    /\ cur' = NoPayload
    /\ wnba' = 0
    /\ wpc' = "consume"
    /\ UNCHANGED <<nbas, event_to_nba_id, events, queue, wi, wexisting, wsnap, threadVars, qres, rres, liter, life>>

\* process is left before its return, between two of its store calls (a
\* store call raises, or the run ends there): nothing is marked, what the
\* stores hold stays, and the locals go.  A later delivery of the event runs
\* process again.  (MaxLog bounds the log such runs can grow.)
Abort ==
    /\ wpc \notin {"consume", "is_processed"}
    /\ Len(events) < MaxLog
    /\ wpc' = "consume"
    /\ cur' = NoPayload
    /\ wi' = 0
    /\ wexisting' = NoRecord
    /\ wsnap' = <<>>
    /\ wnba' = 0
    /\ wres' = Result(cur.event_id, "aborted", 0)
    /\ UNCHANGED <<storeVars, queue, threadVars, qres, rres, liter, life>>

\* ------------------------------------------------------- action requests
\* The terminal test with one of the two statuses left out.
IsTerminalRejectedOnly(status) == status \in {NBA_STATUS_REJECTED}
IsTerminalAcceptedOnly(status) == status \in {NBA_STATUS_ACCEPTED}

\* register_action: nba.status in {NBA_STATUS_ACCEPTED, NBA_STATUS_REJECTED}
IsTerminal(status) == status \in {NBA_STATUS_ACCEPTED, NBA_STATUS_REJECTED}

\* What a request does when it returns: the answer is kept, the locals go.
Return(t, answer) ==
    /\ ares' = [ares EXCEPT ![t] = answer]
    /\ aargs' = [aargs EXCEPT ![t] = NoArgs]
    /\ apc' = [apc EXCEPT ![t] = "idle"]

\* submit_action -> register_action: the request arrives (NbaActionRequest
\* admits the two action statuses only) and its status_value is validated.
ActStart(t) ==
    /\ apc[t] = "idle"
    /\ \E nba_id \in (DOMAIN nbas) \cup {MissingId}, status_value \in ACTION_STATUSES :
          IF status_value \notin ACTION_STATUSES
          THEN Return(t, Answer("bad_request", NoRecord))
          ELSE /\ aargs' = [aargs EXCEPT ![t] = [nba_id |-> nba_id, status_value |-> status_value]]
               /\ ares' = [ares EXCEPT ![t] = NoAnswer]
               /\ apc' = [apc EXCEPT ![t] = "get"]
    /\ UNCHANGED <<storeVars, queue, workerVars, aexisting, qres, rres, liter, life>>

\* A register_action that answers not found for an inactive NBA.
ActGetActiveOnly(t) ==
    /\ apc[t] = "get"
    /\ LET nba == get_nba(nbas, aargs[t].nba_id)
       IN  IF nba = NoRecord \/ ~nba.active
           THEN Return(t, Answer("not_found", NoRecord))
           ELSE IF IsTerminal(nba.status)
           THEN IF nba.status = aargs[t].status_value
                THEN /\ apc' = [apc EXCEPT ![t] = "find"]
                     /\ UNCHANGED <<aargs, ares>>
                ELSE Return(t, Answer("conflict", NoRecord))
           ELSE /\ apc' = [apc EXCEPT ![t] = "update_read"]
                /\ UNCHANGED <<aargs, ares>>
    /\ UNCHANGED <<storeVars, queue, workerVars, aexisting, qres, rres, liter, life>>

\* register_action: nba = get_nba(nba_id), and the branch on nba.status.
ActGet(t) ==
    /\ apc[t] = "get"
    /\ LET nba == get_nba(nbas, aargs[t].nba_id)
       IN  IF nba = NoRecord
           THEN Return(t, Answer("not_found", NoRecord))
           ELSE IF IsTerminal(nba.status)
           THEN IF nba.status = aargs[t].status_value
                THEN /\ apc' = [apc EXCEPT ![t] = "find"]
                     /\ UNCHANGED <<aargs, ares>>
                ELSE Return(t, Answer("conflict", NoRecord))
           ELSE /\ apc' = [apc EXCEPT ![t] = "update_read"]
                /\ UNCHANGED <<aargs, ares>>
    /\ UNCHANGED <<storeVars, queue, workerVars, aexisting, qres, rres, liter, life>>

\* A register_action that makes up for a missing entry: it appends one
\* and answers with it.
ActFindAddsMissing(t) ==
    /\ apc[t] = "find"
    /\ LET existing == find_action_event(events, aargs[t].nba_id, aargs[t].status_value)
           event == NbaEventLogRecord(Len(events) + 1, aargs[t].nba_id,
                                      aargs[t].status_value, DEFAULT_USER)
       IN  IF existing # NoRecord
           THEN /\ Return(t, Answer("ok", existing))
                /\ events' = events
           ELSE /\ Return(t, Answer("ok", event))
                /\ events' = Append(events, event)
    /\ UNCHANGED <<nbas, event_to_nba_id, processed, queue, workerVars, aexisting, qres, rres, liter, life>>

\* register_action: existing = find_action_event(nba_id, status_value)
ActFind(t) ==
    /\ apc[t] = "find"
    /\ LET existing == find_action_event(events, aargs[t].nba_id, aargs[t].status_value)
       IN  IF existing # NoRecord
           THEN Return(t, Answer("ok", existing))
           ELSE Return(t, Answer("conflict", NoRecord))
    /\ UNCHANGED <<storeVars, queue, workerVars, aexisting, qres, rres, liter, life>>

\* update_status: existing = self._nbas[nba_id]
ActUpdateRead(t) ==
    /\ apc[t] = "update_read"
    /\ aexisting' = [aexisting EXCEPT ![t] = nbas[aargs[t].nba_id]]
    /\ apc' = [apc EXCEPT ![t] = "update_write"]
    /\ UNCHANGED <<storeVars, queue, workerVars, aargs, ares, qres, rres, liter, life>>

\* The write of update_status clearing the active flag as well.
ActUpdateWriteDeactivates(t) ==
    /\ apc[t] = "update_write"
    /\ nbas' = [nbas EXCEPT ![aargs[t].nba_id] =
                   [aexisting[t] EXCEPT !.status = aargs[t].status_value, !.active = FALSE]]
    /\ aexisting' = [aexisting EXCEPT ![t] = NoRecord]
    /\ apc' = [apc EXCEPT ![t] = "add"]
    /\ UNCHANGED <<event_to_nba_id, events, processed, queue, workerVars, aargs, ares, qres, rres, liter, life>>

\* update_status: self._nbas[nba_id] = replace(existing, status=status)
ActUpdateWrite(t) ==
    /\ apc[t] = "update_write"
    /\ nbas' = [nbas EXCEPT ![aargs[t].nba_id] =
                   [aexisting[t] EXCEPT !.status = aargs[t].status_value]]
    /\ aexisting' = [aexisting EXCEPT ![t] = NoRecord]
    /\ apc' = [apc EXCEPT ![t] = "add"]
    /\ UNCHANGED <<event_to_nba_id, events, processed, queue, workerVars, aargs, ares, qres, rres, liter, life>>

\* register_action: return self._event_repo.add(event)
ActAdd(t) ==
    /\ apc[t] = "add"
    /\ LET event == NbaEventLogRecord(Len(events) + 1, aargs[t].nba_id,
                                      aargs[t].status_value, DEFAULT_USER)
       IN  /\ events' = Append(events, event)
           /\ Return(t, Answer("ok", event))
    /\ UNCHANGED <<nbas, event_to_nba_id, processed, queue, workerVars, aexisting, qres, rres, liter, life>>

ActStep(t) ==
    \/ ActStart(t)
    \/ ActGet(t)
    \/ ActFind(t)
    \/ ActUpdateRead(t)
    \/ ActUpdateWrite(t)
    \/ ActAdd(t)

\* process, from the arrival of a payload of P to its return.
ProcessStep(P) ==
    \/ Deliver(P)
    \/ IsProcessed
    \/ DeactRead
    \/ DeactWrite
    \/ MarkOnly
    \/ Upsert
    \/ Snapshot
    \/ Supersede
    \/ LogAdd
    \/ Mark

\* --------------------------------------------------------- list requests
\* The account_id, enterprise_number and status filters a request may carry
\* (the route admits no status outside NBA_STATUSES).
AccountFilters == {None} \cup { s.account_id : s \in Scopes }
EnterpriseFilters == {None} \cup { s.enterprise_number : s \in Scopes }
StatusFilters == {None} \cup NBA_STATUSES

\* The route list_nbas -> list_for_user -> InMemoryNbaRepository.list_nbas,
\* limit >= 1 and offset >= 0 as the route's Query bounds demand.
ListNbas ==
    /\ qres = NoList
    /\ \E account_id \in AccountFilters, enterprise_number \in EnterpriseFilters,
          status \in StatusFilters, limit \in 1..MaxLimit, offset \in 0..MaxOffset :
          LET got == list_nbas(nbas, account_id, enterprise_number, status, limit, offset)
          IN  qres' = [account_id |-> account_id, enterprise_number |-> enterprise_number,
                       status |-> status, limit |-> limit, offset |-> offset,
                       items |-> got.items, total |-> got.total]
    /\ UNCHANGED <<storeVars, queue, workerVars, threadVars, rres, liter, life>>

\* The route list_nbas returns its NbaListResponse.
ListRespond ==
    /\ qres # NoList
    /\ qres' = NoList
    /\ UNCHANGED <<storeVars, queue, workerVars, threadVars, rres, liter, life>>

\* The same route on a thread-pool thread (list_nbas is a plain `def`),
\* step by step: the comprehension starts to iterate self._nbas.values();
\* the dict iterator remembers the size of the dict.
ListBegin ==
    /\ liter = NoIter
    /\ qres = NoList
    /\ \E account_id \in AccountFilters, enterprise_number \in EnterpriseFilters,
          status \in StatusFilters, limit \in 1..MaxLimit, offset \in 0..MaxOffset :
          liter' = [account_id |-> account_id, enterprise_number |-> enterprise_number,
                    status |-> status, limit |-> limit, offset |-> offset,
                    size |-> Len(nbas), pos |-> 0, filtered |-> <<>>]
    /\ UNCHANGED <<storeVars, queue, workerVars, threadVars, qres, rres, life>>

\* One next() of the iterator: it raises if the dict's size is no longer
\* the one it remembers, else yields the next value, which the
\* comprehension tests; once exhausted, list_nbas sorts, slices and returns.
ListIterate ==
    /\ liter # NoIter
    /\ IF Len(nbas) # liter.size
       THEN /\ qres' = ListFailed
            /\ liter' = NoIter
       ELSE IF liter.pos < liter.size
       THEN /\ liter' = [liter EXCEPT
                           !.pos = liter.pos + 1,
                           !.filtered = IF ListMatch(nbas[liter.pos + 1], liter.account_id,
                                                     liter.enterprise_number, liter.status)
                                        THEN Append(liter.filtered, liter.pos + 1)
                                        ELSE liter.filtered]
            /\ qres' = qres
       ELSE /\ qres' = [account_id |-> liter.account_id,
                         enterprise_number |-> liter.enterprise_number,
                         status |-> liter.status, limit |-> liter.limit, offset |-> liter.offset,
                         items |-> Slice(SortDesc(nbas, liter.filtered), liter.offset, liter.limit),
                         total |-> Len(liter.filtered)]
            /\ liter' = NoIter
    /\ UNCHANGED <<storeVars, queue, workerVars, threadVars, rres, life>>

\* ------------------------------------------ calls on a repository alone
\* The nba_ids a caller may pass: ids of records, any of them repeated, and
\* ids no record has.
IdLists ==
    UNION { [1..n -> (DOMAIN nbas) \cup {MissingId}] : n \in 0..MaxIds }

\* InMemoryNbaRepository.deactivate_nbas_by_ids(nba_ids=...), no other call
\* running.
DeactivateNbasByIds ==
    /\ rres = NoCall
    /\ \E nba_ids \in IdLists :
          LET got == deactivate_nbas_by_ids(nbas, nba_ids)
          IN  /\ nbas' = got.nbas
              /\ rres' = [call |-> "deactivate_nbas_by_ids", nba_ids |-> nba_ids,
                           deactivated |-> got.deactivated]
    /\ UNCHANGED <<event_to_nba_id, events, processed, queue, workerVars, threadVars, qres, liter, life>>

\* InMemoryNbaRepository.deactivate_other_active_new_for_scope(...), no
\* other call running; keep_nba_id is a record's id or none's.
DeactivateOtherActiveNewForScope ==
    /\ rres = NoCall
    /\ \E keep_nba_id \in (DOMAIN nbas) \cup {MissingId}, scope \in Scopes :
          LET got == deactivate_other_active_new_for_scope(nbas, keep_nba_id, scope)
          IN  /\ nbas' = got.nbas
              /\ rres' = [call |-> "deactivate_other_active_new_for_scope",
                           keep_nba_id |-> keep_nba_id, scope |-> scope,
                           deactivated |-> got.deactivated]
    /\ UNCHANGED <<event_to_nba_id, events, processed, queue, workerVars, threadVars, qres, liter, life>>

\* InMemoryNbaEventLogRepository.list_for_nba(nba_id)
ListForNba ==
    /\ rres = NoCall
    /\ \E nba_id \in (DOMAIN nbas) \cup {MissingId} :
          rres' = [call |-> "list_for_nba", nba_id |-> nba_id,
                   entries |-> list_for_nba(events, nba_id)]
    /\ UNCHANGED <<storeVars, queue, workerVars, threadVars, qres, liter, life>>

\* InMemoryNbaEventLogRepository.find_action_event(nba_id, status)
FindActionEvent ==
    /\ rres = NoCall
    /\ \E nba_id \in 1..2, status \in NBA_STATUSES :
          rres' = [call |-> "find_action_event", nba_id |-> nba_id, status |-> status,
                   found |-> find_action_event(events, nba_id, status)]
    /\ UNCHANGED <<storeVars, queue, workerVars, threadVars, qres, liter, life>>

\* The caller has taken what the call returned.
CallReturn ==
    /\ rres # NoCall
    /\ rres' = NoCall
    /\ UNCHANGED <<storeVars, queue, workerVars, threadVars, qres, liter, life>>

\* -------------------------------------------------------- specifications
WorkerIdle == wpc = "consume"
ThreadsIdle(S) == \A t \in S : apc[t] = "idle"

\* The worker's steps and one request's steps interleave freely.
Next ==
    \/ ProcessStep(Payloads)
    \/ ActStep(1)

Spec == Init /\ [][Next]_vars

\* One call at a time: process and register_action run to their return
\* before another call starts.
NextSeq ==
    \/ ThreadsIdle(Threads) /\ ProcessStep(Payloads)
    \/ \E t \in Threads : WorkerIdle /\ ThreadsIdle(Threads \ {t}) /\ ActStep(t)

SpecSeq == Init /\ [][NextSeq]_vars

\* The requests' steps interleave with each other, between two events that
\* create a record and deactivate none by id.
NextRace ==
    \/ ThreadsIdle(Threads) /\ ProcessStep(CreatePayloads)
    \/ \E t \in Threads : WorkerIdle /\ ActStep(t)

SpecRace == Init /\ [][NextRace]_vars

\* queue_worker: one turn of its loop after another, each from consume to
\* the return of process.
QueueWorker ==
    \/ Consume
    \/ IsProcessed
    \/ DeactRead
    \/ DeactWrite
    \/ MarkOnly
    \/ Upsert
    \/ Snapshot
    \/ Supersede
    \/ LogAdd
    \/ Mark

\* The producers and the one worker task around the queue.
NextQueue ==
    \/ Enqueue
    \/ QueueWorker

SpecQueue == Init /\ [][NextQueue]_vars

\* The event loop runs the worker task whenever it can run: it is never
\* cancelled and no turn of its loop is left out for ever.
SpecQueueFair == SpecQueue /\ WF_vars(QueueWorker)

\* A worker that logs the exception and goes on with its loop.
RaiseAndContinue ==
    /\ wpc \notin {"consume", "dead", "cancelling", "cancelled"}
    /\ wpc' = "consume"
    /\ cur' = NoPayload
    /\ wi' = 0
    /\ wexisting' = NoRecord
    /\ wsnap' = <<>>
    /\ wnba' = 0
    /\ wres' = NoResult
    /\ UNCHANGED <<storeVars, queue, threadVars, qres, rres, liter, life>>

\* services.calc.process(payload) raises inside queue_worker: nothing in
\* the `while True` loop catches it, the task ends with the exception and
\* lifespan, which created it once, creates no other. The event taken from
\* the queue is gone with the worker's locals.
Raise ==
    /\ wpc \notin {"consume", "dead", "cancelling", "cancelled"}
    /\ wpc' = "dead"
    /\ cur' = NoPayload
    /\ wi' = 0
    /\ wexisting' = NoRecord
    /\ wsnap' = <<>>
    /\ wnba' = 0
    /\ wres' = NoResult
    /\ UNCHANGED <<storeVars, queue, threadVars, qres, rres, liter, life>>

NextRaise ==
    \/ Enqueue
    \/ QueueWorker
    \/ Raise

SpecRaise == Init /\ [][NextRaise]_vars

\* A cancellation that reaches the worker wherever it is, inside process
\* too, and ends it there.
ShutdownCancelAnywhere ==
    /\ life = "serving"
    /\ life' = "awaiting"
    /\ wpc' = "cancelling"
    /\ UNCHANGED <<storeVars, queue, cur, wi, wexisting, wsnap, wnba, wres,
                   threadVars, qres, rres, liter>>

\* lifespan, after the yield: worker_task.cancel() and then
\* `await worker_task`. lifespan runs on the event loop, so it runs only
\* while the worker is suspended in `await queue.consume()`, the worker's
\* one suspension point; the queue may hold events published since the
\* worker was last resumed.
ShutdownCancel ==
    /\ life = "serving"
    /\ wpc = "consume"
    /\ life' = "awaiting"
    /\ wpc' = "cancelling"
    /\ UNCHANGED <<storeVars, queue, cur, wi, wexisting, wsnap, wnba, wres,
                   threadVars, qres, rres, liter>>

\* A worker that catches the CancelledError and goes on with its loop.
WorkerIgnoresCancel ==
    /\ wpc = "cancelling"
    /\ wpc' = "consume"
    /\ UNCHANGED <<storeVars, queue, cur, wi, wexisting, wsnap, wnba, wres,
                   threadVars, qres, rres, liter, life>>

\* The event loop resumes the worker by throwing CancelledError into
\* `await queue.consume()`: asyncio.Queue.get leaves the queue as it is,
\* nothing in queue_worker catches the error, the task is done.
WorkerCancelled ==
    /\ wpc = "cancelling"
    /\ wpc' = "cancelled"
    /\ UNCHANGED <<storeVars, queue, cur, wi, wexisting, wsnap, wnba, wres,
                   threadVars, qres, rres, liter, life>>

\* `await worker_task` returns: suppress(CancelledError) swallows the
\* task's CancelledError and lifespan logs "app.shutdown complete".
ShutdownComplete ==
    /\ life = "awaiting"
    /\ wpc = "cancelled"
    /\ life' = "complete"
    /\ UNCHANGED <<storeVars, queue, workerVars, threadVars, qres, rres, liter>>

NextShutdown ==
    \/ Enqueue
    \/ QueueWorker
    \/ ShutdownCancel
    \/ WorkerCancelled
    \/ ShutdownComplete

\* The event loop runs every callback that is ready: the cancelled
\* worker's step and the wake-up of lifespan.
SpecShutdown ==
    /\ Init
    /\ [][NextShutdown]_vars
    /\ WF_vars(WorkerCancelled)
    /\ WF_vars(ShutdownComplete)

\* Events that create a record, delivered one after another, the processing
\* of any of them left before its return and the event delivered again.
NextAbort ==
    \/ ProcessStep(RedeliveredPayloads)
    \/ Abort

SpecAbort == Init /\ [][NextAbort]_vars

\* The worker, one action request and the readers of the event log, their
\* steps interleaved.
NextLog ==
    \/ ProcessStep(CreatePayloads)
    \/ ActStep(1)
    \/ ListForNba
    \/ CallReturn

SpecLog == Init /\ [][NextLog]_vars

\* A list request on a thread-pool thread, its steps interleaved with the
\* worker's.
NextListRace ==
    \/ ProcessStep(CreatePayloads)
    \/ ListBegin
    \/ ListIterate
    \/ ListRespond

SpecListRace == Init /\ [][NextListRace]_vars

\* The list requests alone, on each store the program can build: records
\* in creation order, created_at never decreasing (utc_now() may return the
\* same instant twice), each record active or not and in any status.
StoredRecords(n) ==
    { [NbaRecord(s, c) EXCEPT !.active = a, !.status = st] :
        s \in Scopes, c \in 1..n, a \in BOOLEAN, st \in NBA_STATUSES }

ListStores ==
    UNION { { store \in [1..n -> StoredRecords(n)] :
                /\ n > 0 => store[1].created_at = 1
                /\ \A k \in 1..(n - 1) :
                      store[k + 1].created_at \in {store[k].created_at, store[k].created_at + 1} } :
            n \in 0..MaxList }

InitList ==
    /\ nbas \in ListStores
    /\ event_to_nba_id = [e \in EventIds |-> 0]
    /\ events = <<>>
    /\ processed = {}
    /\ queue = <<>>
    /\ wpc = "consume"
    /\ cur = NoPayload
    /\ wi = 0
    /\ wexisting = NoRecord
    /\ wsnap = <<>>
    /\ wnba = 0
    /\ wres = NoResult
    /\ apc = [t \in Threads |-> "idle"]
    /\ aargs = [t \in Threads |-> NoArgs]
    /\ aexisting = [t \in Threads |-> NoRecord]
    /\ ares = [t \in Threads |-> NoAnswer]
    /\ qres = NoList
    /\ rres = NoCall
    /\ liter = NoIter
    /\ life = "serving"

NextList ==
    \/ ListNbas
    \/ ListRespond

SpecList == InitList /\ [][NextList]_vars

\* deactivate_nbas_by_ids called on its own, one call after another, on each
\* of these stores.
NextDeact ==
    \/ DeactivateNbasByIds
    \/ CallReturn

SpecDeact == InitList /\ [][NextDeact]_vars

\* find_action_event called on its own on each log that add() can have
\* built: entries of two NBAs in any status, acted_by None (the system's
\* entries) or a str, the empty one included (NbaEventLogRecord.acted_by is
\* `str | None`).
LoggedEntries(n) ==
    { NbaEventLogRecord(k, nba_id, status, acted_by) :
        k \in 1..n, nba_id \in 1..2, status \in NBA_STATUSES,
        acted_by \in {None, "", DEFAULT_USER} }

Logs ==
    UNION { { log \in [1..n -> LoggedEntries(n)] : \A k \in 1..n : log[k].id = k } :
            n \in 0..MaxEntries }

InitFind ==
    /\ nbas = <<>>
    /\ event_to_nba_id = [e \in EventIds |-> 0]
    /\ events \in Logs
    /\ processed = {}
    /\ queue = <<>>
    /\ wpc = "consume"
    /\ cur = NoPayload
    /\ wi = 0
    /\ wexisting = NoRecord
    /\ wsnap = <<>>
    /\ wnba = 0
    /\ wres = NoResult
    /\ apc = [t \in Threads |-> "idle"]
    /\ aargs = [t \in Threads |-> NoArgs]
    /\ aexisting = [t \in Threads |-> NoRecord]
    /\ ares = [t \in Threads |-> NoAnswer]
    /\ qres = NoList
    /\ rres = NoCall
    /\ liter = NoIter
    /\ life = "serving"

NextFind ==
    \/ FindActionEvent
    \/ CallReturn

SpecFind == InitFind /\ [][NextFind]_vars

\* deactivate_other_active_new_for_scope called on its own, one call after
\* another, on each of these stores.
NextScope ==
    \/ DeactivateOtherActiveNewForScope
    \/ CallReturn

SpecScope == InitList /\ [][NextScope]_vars

\* ================================================================ claims
\* The records of `store` that are active with status new in `scope`.
ActiveNewIn(store, scope) ==
    { n \in DOMAIN store :
        store[n].active /\ store[n].status = NBA_STATUS_NEW /\ ScopeOf(store[n]) = scope }

\* The log entries of `nba_id` a human action made (acted_by set), by position.
HumanEntries(log, nba_id) ==
    { k \in DOMAIN log : log[k].nba_id = nba_id /\ log[k].acted_by # None }

MappedEvents(map) == { e \in EventIds : map[e] # 0 }

\* ---------------------------------------------------------------- C1
\* C1: an event with create_nba=true whose eventId was processed before (it
\* is in the ledger and has its record) is answered duplicate_skipped when
\* processed again, and exactly one record is associated with the eventId
\* afterwards: the eventId still maps to its one record, no other eventId
\* maps to that record, and no record was added.
C1_IdempotentEventCreation ==
    [][ ( /\ wpc = "is_processed" /\ wpc' # wpc
          /\ cur.create_nba
          /\ cur.event_id \in processed
          /\ event_to_nba_id[cur.event_id] # 0 )
        => /\ wres' = Result(cur.event_id, "duplicate_skipped", 0)
           /\ event_to_nba_id'[cur.event_id] = event_to_nba_id[cur.event_id]
           /\ event_to_nba_id'[cur.event_id] \in DOMAIN nbas'
           /\ \A e \in EventIds \ {cur.event_id} :
                 event_to_nba_id'[e] # event_to_nba_id'[cur.event_id]
           /\ Len(nbas') = Len(nbas)
           /\ Len(nbas') = Cardinality(MappedEvents(event_to_nba_id')) ]_vars

C1_Witness ==
    /\ wres.action = "duplicate_skipped"
    /\ event_to_nba_id[wres.event_id] # 0
    /\ wres.event_id \in processed

\* ---------------------------------------------------------------- C2
\* C2: when the processing of a creating event returns, and an event of
\* another eventId and the same scope was processed to its end before it,
\* the one record of the scope that is active with status new is the later
\* event's; the earlier event's record, no action request having resolved
\* it in between, has active=false.
C2_ScopeExclusivity ==
    [][ (wpc = "mark" /\ wpc' = "consume")
        => \A e1 \in processed \ {cur.event_id} :
              LET r1 == event_to_nba_id[e1]
                  r2 == wnba
              IN  (r1 # 0 /\ ScopeOf(nbas[r1]) = ScopeOf(nbas[r2]))
                  => /\ r1 # r2
                     /\ wres'.nba_id = r2
                     /\ ActiveNewIn(nbas', ScopeOf(nbas'[r2])) = {r2}
                     /\ (nbas'[r1].status = NBA_STATUS_NEW => ~nbas'[r1].active) ]_vars

C2_Witness ==
    /\ wres.action = "created"
    /\ \E r1 \in DOMAIN nbas :
          /\ r1 < wres.nba_id
          /\ ScopeOf(nbas[r1]) = ScopeOf(nbas[wres.nba_id])
          /\ nbas[r1].status = NBA_STATUS_NEW
          /\ ~nbas[r1].active
          /\ ActiveNewIn(nbas, ScopeOf(nbas[r1])) = {wres.nba_id}

\* ---------------------------------------------------------------- C3
\* C3: in every reachable state, the states between the store calls of one
\* event's processing included, each scope has at most one record that is
\* active with status new.
C3_AtMostOneActiveNewPerScope ==
    \A s \in Scopes : Cardinality(ActiveNewIn(nbas, s)) <= 1

\* ---------------------------------------------------------------- C4
\* C4: in every step a record's status stays the same or goes from new to
\* accepted or from new to rejected.
C4_StatusTransitions ==
    [][ \A n \in DOMAIN nbas :
           \/ nbas'[n].status = nbas[n].status
           \/ /\ nbas[n].status = NBA_STATUS_NEW
              /\ nbas'[n].status \in ACTION_STATUSES ]_vars

\* ---------------------------------------------------------------- C5
\* Two calls on one NBA with one status that were both answered with a log
\* entry were answered with the same entry, the NBA's only one with acted_by
\* set.
SameAnswerTwice ==
    \A t1, t2 \in Threads :
        ( /\ t1 # t2
          /\ ares[t1].kind = "ok" /\ ares[t2].kind = "ok"
          /\ ares[t1].nba_id = ares[t2].nba_id
          /\ ares[t1].status = ares[t2].status )
        => /\ ares[t1].event_id = ares[t2].event_id
           /\ Cardinality(HumanEntries(events, ares[t1].nba_id)) = 1

\* C5: of two registerAction calls made one after the other on the same NBA
\* with the same status, the NBA having been new, the second (it finds the
\* NBA with the status it asks for) is answered with a log entry, appends
\* none and changes no record; both are answered with the same log entry
\* id, and the log then holds exactly one entry with acted_by set for that
\* NBA.
C5_ActionIdempotence ==
    /\ []SameAnswerTwice
    /\ [][ \A t \in Threads :
              ( /\ apc[t] \in {"get", "find"} /\ apc'[t] # apc[t]
                /\ aargs[t].nba_id \in DOMAIN nbas
                /\ nbas[aargs[t].nba_id].status = aargs[t].status_value )
              => /\ events' = events
                 /\ nbas' = nbas
                 /\ IF apc[t] = "get"
                    THEN apc'[t] = "find"
                    ELSE /\ ares'[t].kind = "ok"
                         /\ ares'[t].nba_id = aargs[t].nba_id
                         /\ ares'[t].status = aargs[t].status_value
                         /\ HumanEntries(events', aargs[t].nba_id) = {ares'[t].event_id} ]_vars

C5_Witness ==
    \E t1, t2 \in Threads :
        /\ t1 # t2
        /\ ares[t1].kind = "ok"
        /\ ares[t2] = ares[t1]
        /\ nbas[ares[t1].nba_id].status = ares[t1].status
        /\ HumanEntries(events, ares[t1].nba_id) = {ares[t1].event_id}

\* ---------------------------------------------------------------- C6
\* C6: a registerAction call that finds the NBA accepted and asks for
\* rejected, or finds it rejected and asks for accepted, fails with a
\* conflict, and the step that fails it changes neither the NBA store nor
\* the event log.
C6_ConflictingAction ==
    [][ \A t \in Threads :
           ( /\ apc[t] = "get" /\ apc'[t] # "get"
             /\ aargs[t].nba_id \in DOMAIN nbas
             /\ nbas[aargs[t].nba_id].status \in ACTION_STATUSES
             /\ aargs[t].status_value \in ACTION_STATUSES
             /\ aargs[t].status_value # nbas[aargs[t].nba_id].status )
           => /\ ares'[t].kind = "conflict"
              /\ apc'[t] = "idle"
              /\ nbas' = nbas
              /\ events' = events ]_vars

C6_Witness ==
    \E t \in Threads :
        /\ ares[t].kind = "conflict"
        /\ \E n \in DOMAIN nbas :
              /\ nbas[n].status \in ACTION_STATUSES
              /\ \A k \in HumanEntries(events, n) : events[k].status = nbas[n].status
              /\ HumanEntries(events, n) # {}

\* ---------------------------------------------------------------- C7
\* C7: once the registerAction requests have returned, every NBA has at
\* most one log entry with acted_by set, and that entry's status is the
\* NBA's status.
C7_ConcurrentActions ==
    ThreadsIdle(Threads)
    => \A n \in DOMAIN nbas :
          /\ Cardinality(HumanEntries(events, n)) <= 1
          /\ \A k \in HumanEntries(events, n) : events[k].status = nbas[n].status

\* ---------------------------------------------------------------- C8
\* C8: while an event with create_nba=false that is not in the ledger is
\* processed, no step adds a record, maps an eventId or appends a log
\* entry, and a record changes only by its active flag going from true to
\* false, its id being in deactivate_nba_ids; the processing ends with every
\* record named in deactivate_nba_ids inactive, the eventId in the ledger
\* and the answer deactivated_only.
InFlightDeactivateOnly ==
    /\ wpc \in {"is_processed", "deact_read", "deact_write", "mark_only"}
    /\ ~cur.create_nba
    /\ (wpc = "is_processed" => cur.event_id \notin processed)

C8_DeactivateOnly ==
    [][ InFlightDeactivateOnly
        => LET L == { cur.deactivate_nba_ids[k] : k \in DOMAIN cur.deactivate_nba_ids }
           IN  /\ wpc' \in {"deact_read", "deact_write", "mark_only", "consume"}
               /\ DOMAIN nbas' = DOMAIN nbas
               /\ event_to_nba_id' = event_to_nba_id
               /\ events' = events
               /\ \A n \in DOMAIN nbas :
                     \/ nbas'[n] = nbas[n]
                     \/ /\ n \in L
                        /\ nbas[n].active
                        /\ nbas'[n] = [nbas[n] EXCEPT !.active = FALSE]
               /\ IF wpc' = "consume"
                  THEN /\ wres' = Result(cur.event_id, "deactivated_only", 0)
                       /\ processed' = processed \cup {cur.event_id}
                       /\ \A n \in L \cap DOMAIN nbas : ~nbas'[n].active
                  ELSE processed' = processed ]_vars

C8_Witness ==
    /\ wpc = "mark_only"
    /\ \E k \in DOMAIN cur.deactivate_nba_ids :
          /\ cur.deactivate_nba_ids[k] \in DOMAIN nbas
          /\ ~nbas[cur.deactivate_nba_ids[k]].active
          /\ ActiveNewIn(nbas, ScopeOf(nbas[cur.deactivate_nba_ids[k]])) = {}

\* ---------------------------------------------------------------- C9
\* The filtered set of a list request: the active records that equal each
\* filter given.
FilteredSet(q) ==
    { n \in DOMAIN nbas :
        /\ nbas[n].active
        /\ (q.account_id # None => nbas[n].account_id = q.account_id)
        /\ (q.enterprise_number # None => nbas[n].enterprise_number = q.enterprise_number)
        /\ (q.status # None => nbas[n].status = q.status) }

\* The position of n in the filtered set ordered by created_at descending,
\* records of one created_at in creation order.
RankIn(F, n) ==
    1 + Cardinality({ m \in F :
                        \/ nbas[m].created_at > nbas[n].created_at
                        \/ (nbas[m].created_at = nbas[n].created_at /\ m < n) })

\* C9: a list request with limit >= 1 and offset >= 0 returns the elements
\* at positions offset+1 .. offset+limit of the filtered set ordered by
\* created_at descending (fewer when the set ends), and total is the size of
\* the filtered set whatever limit and offset are.
C9_Pagination ==
    qres # NoList
    => LET F == FilteredSet(qres)
           size == Cardinality(F)
           rest == IF size > qres.offset THEN size - qres.offset ELSE 0
       IN  /\ qres.total = size
           /\ Len(qres.items) = Min(qres.limit, rest)
           /\ \A k \in DOMAIN qres.items :
                 /\ qres.items[k] \in F
                 /\ RankIn(F, qres.items[k]) = qres.offset + k
           /\ \A j, k \in DOMAIN qres.items :
                 j < k => nbas[qres.items[j]].created_at >= nbas[qres.items[k]].created_at

C9_Witness ==
    /\ qres # NoList
    /\ qres.total = 3
    /\ qres.limit = 1
    /\ qres.offset = 1
    /\ Len(qres.items) = 1
    /\ Len(nbas) = 3
    /\ nbas[2].created_at = nbas[3].created_at

\* ---------------------------------------------------------------- C10
\* C10: a registerAction call on an id that no record has fails with
\* not-found, and the step that fails it changes neither the NBA store nor
\* the event log.
C10_UnknownNbaAction ==
    [][ \A t \in Threads :
           ( /\ apc[t] = "get" /\ apc'[t] # "get"
             /\ aargs[t].status_value \in ACTION_STATUSES
             /\ aargs[t].nba_id \notin DOMAIN nbas )
           => /\ ares'[t].kind = "not_found"
              /\ apc'[t] = "idle"
              /\ nbas' = nbas
              /\ event_to_nba_id' = event_to_nba_id
              /\ events' = events ]_vars

C10_Witness ==
    \E t \in Threads :
        /\ ares[t].kind = "not_found"
        /\ nbas # <<>>

\* ---------------------------------------------------------------- C11
\* C11: the processing of an event whose eventId is in the ledger is one
\* step that answers duplicate_skipped and returns, and that step leaves
\* the NBA store, the eventId mapping, the event log and the ledger as they
\* were, whatever the event's deactivate_nba_ids and create_nba are.
C11_DuplicateNoSideEffects ==
    [][ (wpc = "is_processed" /\ wpc' # wpc /\ cur.event_id \in processed)
        => /\ wres' = Result(cur.event_id, "duplicate_skipped", 0)
           /\ wpc' = "consume"
           /\ nbas' = nbas
           /\ event_to_nba_id' = event_to_nba_id
           /\ events' = events
           /\ processed' = processed ]_vars

\* The worker is at the ledger test of an event that is in the ledger and
\* names a record that is active.
C11_Witness ==
    /\ wpc = "is_processed"
    /\ cur.event_id \in processed
    /\ \E k \in DOMAIN cur.deactivate_nba_ids :
          /\ cur.deactivate_nba_ids[k] \in DOMAIN nbas
          /\ nbas[cur.deactivate_nba_ids[k]].active

\* ---------------------------------------------------------------- C12
\* The newest record of `scope` in `store` (0: the scope has none).
LatestIn(store, scope) ==
    LET S == { n \in DOMAIN store : ScopeOf(store[n]) = scope }
    IN  IF S = {} THEN 0 ELSE CHOOSE n \in S : \A m \in S : m <= n

\* C12: once every event that was delivered has been processed to its end
\* (each after any number of processings left before markProcessed), every
\* eventId has exactly one record, and the records that are active with
\* status new are the ones the same events leave when each is processed
\* once without interruption at its first delivery: in every scope the
\* record created last, and no other.
C12_SafeRedelivery ==
    ( /\ wpc = "consume"
      /\ \A e \in EventIds : event_to_nba_id[e] # 0 => e \in processed )
    => /\ Len(nbas) = Cardinality(MappedEvents(event_to_nba_id))
       /\ \A e \in MappedEvents(event_to_nba_id) : event_to_nba_id[e] \in DOMAIN nbas
       /\ \A s \in Scopes :
             /\ Cardinality(ActiveNewIn(nbas, s)) <= 1
             /\ LatestIn(nbas, s) # 0 => ActiveNewIn(nbas, s) = {LatestIn(nbas, s)}

\* ---------------------------------------------------------------- C20
\* C20: a step of the supersession of an event deactivates only records
\* created earlier than the record the event keeps, also when the event is
\* processed again after a processing left before markProcessed.
C20_SupersedesOlderOnly ==
    [][ wpc = "supersede"
        => \A n \in DOMAIN nbas :
              (nbas[n].active /\ ~nbas'[n].active)
              => nbas[n].created_at < nbas[wnba].created_at ]_vars

\* ---------------------------------------------------------------- C15
\* No two eventIds are mapped to one NBA id, and every mapped id is a record's.
InjectiveMapping ==
    /\ \A e \in MappedEvents(event_to_nba_id) : event_to_nba_id[e] \in DOMAIN nbas
    /\ \A e1, e2 \in MappedEvents(event_to_nba_id) :
          event_to_nba_id[e1] = event_to_nba_id[e2] => e1 = e2

\* C15: the eventId -> nbaId mapping is injective in every state; no step
\* changes or removes the entry of a mapped eventId; and the upsert of an
\* eventId that is mapped (the event is processed again, its first
\* processing having been left before markProcessed) returns the record the
\* eventId is mapped to, adds no record and changes no field of any record.
C15_PermanentMapping ==
    /\ []InjectiveMapping
    /\ [][ /\ \A e \in MappedEvents(event_to_nba_id) :
                 event_to_nba_id'[e] = event_to_nba_id[e]
            /\ ( wpc = "upsert" /\ wpc' = "snapshot" /\ event_to_nba_id[cur.event_id] # 0 )
               => /\ wnba' = event_to_nba_id[cur.event_id]
                  /\ nbas' = nbas
                  /\ event_to_nba_id' = event_to_nba_id ]_vars

\* The upsert of a mapped eventId has returned its record, a record of
\* another eventId having been created in between.
C15_Witness ==
    /\ wpc = "snapshot"
    /\ event_to_nba_id[cur.event_id] = wnba
    /\ wnba < Len(nbas)
    /\ Len(nbas) = Cardinality(MappedEvents(event_to_nba_id))

\* ---------------------------------------------------------------- C13
\* C13: the one worker takes an event only while it processes none, the
\* event it takes is the one at the head of the queue, which leaves the
\* queue by that step alone, and an event enters the queue at its tail: the
\* events are processed one at a time in the order they were enqueued.
C13_SerialInOrder ==
    [][ /\ (wpc # "consume" /\ wpc' # "consume") => (cur' = cur /\ queue' = queue)
        /\ (wpc = "consume" /\ wpc' # "consume")
           => /\ cur = NoPayload
              /\ queue # <<>>
              /\ cur' = Head(queue)
              /\ queue' = Tail(queue)
        /\ (wpc' = "consume" /\ queue' # queue)
           => /\ Len(queue') = Len(queue) + 1
              /\ SubSeq(queue', 1, Len(queue)) = queue
        /\ (wpc' = "consume") => cur' = NoPayload ]_vars

\* An event is at the last step of its processing, an earlier one is in the
\* ledger, and an event enqueued after it waits in the queue.
C13_Witness ==
    /\ wpc = "mark"
    /\ Len(queue) >= 1
    /\ cur.event_id # queue[1].event_id
    /\ processed # {}

\* ---------------------------------------------------------------- C14
\* Enqueue can be taken whatever the queue holds (up to the model's bound),
\* the event loop being free.
EnqueueEnabled ==
    (wpc = "consume" /\ Len(queue) < MaxQueue) => ENABLED Enqueue

\* C14: the worker being run whenever it can run and never cancelled, every
\* event in the queue is eventually taken and processed, so that its eventId
\* is in the ledger; and enqueue is enabled at every queue length.
C14_EventuallyProcessed ==
    /\ []EnqueueEnabled
    /\ \A e \in EventIds :
          (\E k \in DOMAIN queue : queue[k].event_id = e) ~> (e \in processed)

\* Every eventId has been taken from the queue and processed to its end,
\* the last answer is a processing to the end, and events wait again.
C14_Witness ==
    /\ wres.action \in {"created", "deactivated_only"}
    /\ wres.event_id \in processed
    /\ Cardinality(processed) = MaxEvents
    /\ queue # <<>>

\* ---------------------------------------------------------------- C16
\* The positions of the entries of `nba_id` in `log`.
EntriesOf(log, nba_id) == { k \in DOMAIN log : log[k].nba_id = nba_id }

\* C16: every step leaves the entries the log holds where they are and as
\* they are (the log grows at its end only), and list_for_nba(nba_id)
\* returns the log's entries with that nba_id, each once, in the order of
\* their insertion.
C16_AppendOnlyLog ==
    [][ /\ Len(events') >= Len(events)
        /\ SubSeq(events', 1, Len(events)) = events
        /\ (rres = NoCall /\ rres' # NoCall /\ rres'.call = "list_for_nba")
           => LET got == rres'.entries
                  K == EntriesOf(events, rres'.nba_id)
              IN  /\ Len(got) = Cardinality(K)
                  /\ \A i \in DOMAIN got :
                        \E k \in K :
                           /\ Cardinality({ j \in K : j <= k }) = i
                           /\ got[i] = events[k] ]_vars

\* list_for_nba has returned the first and the third entry of a log whose
\* second entry is another NBA's.
C16_Witness ==
    /\ rres # NoCall
    /\ rres.call = "list_for_nba"
    /\ Len(rres.entries) = 2
    /\ Len(events) >= 3
    /\ rres.entries[1] = events[1]
    /\ events[2].nba_id # rres.nba_id
    /\ rres.entries[2] = events[3]

\* ---------------------------------------------------------------- C17
\* C17: a call deactivate_nbas_by_ids(ids) sets active=false on the
\* records whose id is in ids and that were active, and returns their
\* number (an id counts once however often ids repeats it); ids of no
\* record and ids of inactive records change nothing and raise nothing;
\* every other record stays as it was, and no record's status changes.
C17_DeactivateByIds ==
    [][ (rres = NoCall /\ rres' # NoCall /\ rres'.call = "deactivate_nbas_by_ids")
        => LET ids == { rres'.nba_ids[k] : k \in DOMAIN rres'.nba_ids }
               hit == { n \in DOMAIN nbas : n \in ids /\ nbas[n].active }
           IN  /\ DOMAIN nbas' = DOMAIN nbas
               /\ \A n \in hit : nbas'[n] = [nbas[n] EXCEPT !.active = FALSE]
               /\ \A n \in (DOMAIN nbas) \ hit : nbas'[n] = nbas[n]
               /\ \A n \in DOMAIN nbas : nbas'[n].status = nbas[n].status
               /\ rres'.deactivated = Cardinality(hit) ]_vars

\* A call that named one record twice and an id of no record has
\* deactivated the record and returned 1.
C17_Witness ==
    /\ rres # NoCall
    /\ rres.call = "deactivate_nbas_by_ids"
    /\ Len(rres.nba_ids) = 3
    /\ rres.nba_ids[1] = rres.nba_ids[2]
    /\ rres.nba_ids[1] \in DOMAIN nbas
    /\ rres.nba_ids[3] = MissingId
    /\ rres.deactivated = 1
    /\ ~nbas[rres.nba_ids[1]].active

\* ---------------------------------------------------------------- C18
\* C18: no record a list request returns has active=false, every record it
\* returns equals each filter the request gives, total counts the records
\* that are active and equal each filter given (a filter not given excludes
\* no record, whatever the record's value, null included), and a page large
\* enough for them holds all of these records.
C18_ListFilter ==
    qres # NoList
    => LET got == { qres.items[k] : k \in DOMAIN qres.items }
           F == FilteredSet(qres)
       IN  /\ \A n \in got :
                 /\ n \in DOMAIN nbas
                 /\ nbas[n].active
                 /\ qres.account_id \in {None, nbas[n].account_id}
                 /\ qres.enterprise_number \in {None, nbas[n].enterprise_number}
                 /\ qres.status \in {None, nbas[n].status}
           /\ got \subseteq F
           /\ qres.total = Cardinality(F)
           /\ (qres.offset = 0 /\ Cardinality(F) <= qres.limit) => got = F

\* A request without account_id filter has returned a record whose
\* account_id is null and one whose account_id is set, all that match, the
\* store holding an inactive record too.
C18_Witness ==
    /\ qres # NoList
    /\ qres.account_id = None
    /\ qres.status # None
    /\ qres.offset = 0
    /\ Len(qres.items) = 2
    /\ qres.total = 2
    /\ nbas[qres.items[1]].account_id # nbas[qres.items[2]].account_id
    /\ \E n \in DOMAIN nbas : ~nbas[n].active /\ nbas[n].status = qres.status

\* ---------------------------------------------------------------- C19
\* C19: the ledger only grows, and an eventId enters it by the last step
\* of the processing of its event alone, the step that returns: that step
\* writes no other store, and in the state it is taken from the records the
\* event names in deactivate_nba_ids are inactive and, for a creating
\* event, its record exists and is mapped, no other record of its scope is
\* active with status new, and the log holds the record's system entry.
C19_MarkedLast ==
    [][ /\ processed \subseteq processed'
        /\ \A e \in processed' \ processed :
              /\ wpc \in {"mark", "mark_only"}
              /\ wpc' = "consume"
              /\ e = cur.event_id
              /\ nbas' = nbas
              /\ event_to_nba_id' = event_to_nba_id
              /\ events' = events
              /\ \A k \in DOMAIN cur.deactivate_nba_ids :
                    cur.deactivate_nba_ids[k] \in DOMAIN nbas
                    => ~nbas[cur.deactivate_nba_ids[k]].active
              /\ wres'.action = IF cur.create_nba THEN "created" ELSE "deactivated_only"
              /\ cur.create_nba
                 => /\ wpc = "mark"
                    /\ event_to_nba_id[e] = wnba
                    /\ wnba \in DOMAIN nbas
                    /\ ActiveNewIn(nbas, ScopeOf(nbas[wnba])) \subseteq {wnba}
                    /\ \E k \in DOMAIN events :
                          /\ events[k].nba_id = wnba
                          /\ events[k].status = NBA_STATUS_NEW
                          /\ events[k].acted_by = None
        /\ (wpc \in {"mark", "mark_only"} /\ wpc' = "consume")
           => (cur.event_id \notin processed /\ processed' = processed \cup {cur.event_id}) ]_vars

\* A creating event has been marked: its record is mapped and logged and
\* is the one active record, and a record of another scope, which
\* supersession leaves alone, is inactive by the event's deactivate_nba_ids.
C19_Witness ==
    /\ wres.action = "created"
    /\ wres.event_id \in processed
    /\ event_to_nba_id[wres.event_id] = wres.nba_id
    /\ nbas[wres.nba_id].active
    /\ \E k \in DOMAIN events : events[k].nba_id = wres.nba_id
    /\ \E r \in DOMAIN nbas :
          /\ ScopeOf(nbas[r]) # ScopeOf(nbas[wres.nba_id])
          /\ ~nbas[r].active
          /\ nbas[r].status = NBA_STATUS_NEW

\* ---------------------------------------------------------------- C21
\* C21: a call deactivate_other_active_new_for_scope(keepId, def, ent, acc,
\* con) sets active=false on the records other than keepId that are active
\* with status new and whose four scope fields equal the arguments (a null
\* argument equals a null field only), changes nothing else of them, leaves
\* every other record and the record keepId as they were, and returns the
\* number of records it deactivated.
C21_SupersessionFrame ==
    [][ (rres = NoCall /\ rres' # NoCall /\ rres'.call = "deactivate_other_active_new_for_scope")
        => LET a == rres'.scope
               hit == { n \in DOMAIN nbas :
                          /\ n # rres'.keep_nba_id
                          /\ nbas[n].active
                          /\ nbas[n].status = NBA_STATUS_NEW
                          /\ nbas[n].nba_definition_id = a.nba_definition_id
                          /\ nbas[n].enterprise_number = a.enterprise_number
                          /\ nbas[n].account_id = a.account_id
                          /\ nbas[n].contact_id = a.contact_id }
           IN  /\ DOMAIN nbas' = DOMAIN nbas
               /\ \A n \in hit : nbas'[n] = [nbas[n] EXCEPT !.active = FALSE]
               /\ \A n \in (DOMAIN nbas) \ hit : nbas'[n] = nbas[n]
               /\ rres'.deactivated = Cardinality(hit)
               /\ rres'.deactivated = Cardinality({ n \in DOMAIN nbas : nbas[n].active /\ ~nbas'[n].active }) ]_vars

\* A call with a null account_id has deactivated one record and has left
\* active the kept record of the same scope and a new record whose
\* account_id is set.
C21_Witness ==
    /\ rres # NoCall
    /\ rres.call = "deactivate_other_active_new_for_scope"
    /\ rres.scope.account_id = None
    /\ rres.deactivated = 1
    /\ rres.keep_nba_id \in DOMAIN nbas
    /\ nbas[rres.keep_nba_id].active
    /\ nbas[rres.keep_nba_id].status = NBA_STATUS_NEW
    /\ ScopeOf(nbas[rres.keep_nba_id]) = rres.scope
    /\ \E n \in DOMAIN nbas :
          /\ nbas[n].active
          /\ nbas[n].status = NBA_STATUS_NEW
          /\ nbas[n].account_id # None

\* ---------------------------------------------------------------- C22
\* The ids the event in hand names in deactivate_nba_ids that are records'.
NamedRecords ==
    { cur.deactivate_nba_ids[k] : k \in DOMAIN cur.deactivate_nba_ids } \cap DOMAIN nbas

\* C22: in the processing of an event seen for the first time with
\* create_nba=true, the records named in deactivate_nba_ids are inactive in
\* the state the upsert creates the event's record from, and when the
\* processing returns they are inactive and the record created for the
\* event is active with status new, whatever the scopes of the records.
C22_DeactivateBeforeUpsert ==
    [][ /\ (wpc = "upsert" /\ wpc' = "snapshot" /\ event_to_nba_id[cur.event_id] = 0)
           => /\ \A x \in NamedRecords : ~nbas[x].active
              /\ Len(nbas') = Len(nbas) + 1
              /\ \A x \in NamedRecords : ~nbas'[x].active
        /\ (wpc = "mark" /\ wpc' = "consume" /\ cur.deactivate_nba_ids # <<>>)
           => /\ \A x \in NamedRecords : ~nbas'[x].active
              /\ wnba \notin NamedRecords
              /\ wres' = Result(cur.event_id, "created", wnba)
              /\ nbas'[wnba].active
              /\ nbas'[wnba].status = NBA_STATUS_NEW ]_vars

\* The second event is about to return: it named the first event's record,
\* which is of another scope and inactive, and its own record is active.
C22_Witness ==
    /\ wpc = "mark"
    /\ Len(nbas) = 2
    /\ wnba = 2
    /\ cur.deactivate_nba_ids = <<1>>
    /\ ~nbas[1].active
    /\ ScopeOf(nbas[1]) # ScopeOf(nbas[2])
    /\ nbas[2].active
    /\ nbas[2].status = NBA_STATUS_NEW

\* ---------------------------------------------------------------- C23
\* C23: no step of an event's supersession writes the record the event's
\* upsert yielded, and when the processing of an event seen for the first
\* time with create_nba=true returns, the record created for it is the
\* one returned and is active with status new.
C23_OwnRecordKept ==
    [][ /\ (wpc = "supersede") => (wi # wnba /\ nbas'[wnba] = nbas[wnba])
        /\ (wpc = "mark" /\ wpc' = "consume")
           => /\ wres'.action = "created"
              /\ wres'.nba_id = event_to_nba_id'[cur.event_id]
              /\ nbas'[wres'.nba_id].active
              /\ nbas'[wres'.nba_id].status = NBA_STATUS_NEW ]_vars

\* The supersession of an event has run and has deactivated a record of
\* the scope; the event's own record is active with status new.
C23_Witness ==
    /\ wpc = "log_add"
    /\ nbas[wnba].active
    /\ nbas[wnba].status = NBA_STATUS_NEW
    /\ \E r \in DOMAIN nbas :
          /\ r # wnba
          /\ ScopeOf(nbas[r]) = ScopeOf(nbas[wnba])
          /\ nbas[r].status = NBA_STATUS_NEW
          /\ ~nbas[r].active

\* ---------------------------------------------------------------- C24
\* C24: a registerAction(nbaId, s) call, s accepted or rejected, that finds
\* the NBA with status new goes on to update it; its write sets the NBA's
\* status to s and changes nothing else of it and no other record; its
\* last step appends one log entry with nba_id=nbaId, status=s and
\* acted_by the acting user, answers with that entry and changes no record.
C24_ActionOnNew ==
    [][ \A t \in Threads :
           /\ ( /\ apc[t] = "get" /\ apc'[t] # "get"
                /\ aargs[t].nba_id \in DOMAIN nbas
                /\ nbas[aargs[t].nba_id].status = NBA_STATUS_NEW )
              => (apc'[t] = "update_read" /\ nbas' = nbas /\ events' = events)
           /\ (apc[t] = "update_read" /\ apc'[t] # apc[t])
              => (apc'[t] = "update_write" /\ nbas' = nbas /\ events' = events)
           /\ (apc[t] = "update_write" /\ apc'[t] # apc[t])
              => /\ apc'[t] = "add"
                 /\ nbas[aargs[t].nba_id].status = NBA_STATUS_NEW
                 /\ nbas' = [nbas EXCEPT ![aargs[t].nba_id].status = aargs[t].status_value]
                 /\ nbas'[aargs[t].nba_id].active = nbas[aargs[t].nba_id].active
                 /\ events' = events
           /\ (apc[t] = "add" /\ apc'[t] # apc[t])
              => /\ apc'[t] = "idle"
                 /\ nbas' = nbas
                 /\ nbas[aargs[t].nba_id].status = aargs[t].status_value
                 /\ Len(events') = Len(events) + 1
                 /\ SubSeq(events', 1, Len(events)) = events
                 /\ events'[Len(events')].nba_id = aargs[t].nba_id
                 /\ events'[Len(events')].status = aargs[t].status_value
                 /\ events'[Len(events')].acted_by = "system"
                 /\ ares'[t] = [kind |-> "ok", event_id |-> events'[Len(events')].id,
                                nba_id |-> aargs[t].nba_id, status |-> aargs[t].status_value] ]_vars

\* A request on an inactive NBA with status new has been answered with the
\* entry it appended: the NBA has the requested status and is inactive
\* still, and another record is new.
C24_Witness ==
    \E t \in Threads :
        /\ ares[t].kind = "ok"
        /\ apc[t] = "idle"
        /\ events[Len(events)].id = ares[t].event_id
        /\ events[Len(events)].acted_by = DEFAULT_USER
        /\ nbas[ares[t].nba_id].status = ares[t].status
        /\ ~nbas[ares[t].nba_id].active
        /\ \E n \in DOMAIN nbas : nbas[n].status = NBA_STATUS_NEW

C26_CreatedIsLoggedAndMarked ==
    wres.action = "created"
    => /\ wres.nba_id \in DOMAIN nbas
       /\ wres.event_id \in processed
       /\ \E k \in DOMAIN events :
             /\ events[k].nba_id = wres.nba_id
             /\ events[k].status = NBA_STATUS_NEW
             /\ events[k].acted_by = None

\* The second processing has returned created while a request that
\* accepted the first record has appended its entry after the system's.
C26_Witness ==
    /\ wres.action = "created"
    /\ wres.nba_id = 2
    /\ Len(events) >= 3
    /\ events[Len(events)].nba_id = wres.nba_id
    /\ events[Len(events)].acted_by = None
    /\ \E k \in DOMAIN events : events[k].acted_by # None

\* ---------------------------------------------------------------- C27
\* C27: no step of the worker's upsert and scope supersession changes a
\* record whose status is accepted or rejected: when a record is created
\* in its scope such a record stays active and in the list of its scope;
\* and in every step, whoever takes it, the active flag of an accepted or
\* rejected record goes to false by a write of deactivate_nbas_by_ids only.
C27_SupersessionSparesResolved ==
    [][ \A n \in DOMAIN nbas :
           nbas[n].status \in ACTION_STATUSES
           => /\ (wpc \in {"upsert", "snapshot", "supersede"} /\ workerVars' # workerVars)
                 => nbas'[n] = nbas[n]
              /\ (nbas[n].active /\ ~nbas'[n].active)
                 => (wpc = "deact_write" /\ DeactIds[wi] = n)
              /\ (nbas[n].active /\ wpc \in {"upsert", "snapshot", "supersede"}
                               /\ workerVars' # workerVars)
                 => \E k \in DOMAIN list_nbas(nbas', nbas[n].account_id, nbas[n].enterprise_number,
                                               nbas[n].status, Len(nbas'), 0).items :
                       list_nbas(nbas', nbas[n].account_id, nbas[n].enterprise_number,
                                 nbas[n].status, Len(nbas'), 0).items[k] = n ]_vars

\* ---------------------------------------------------------------- C28
\* C28: a list request that runs while the worker processes events is
\* served as one atomic read of the store; in particular it never fails
\* because the store changes while it is read.
C28_ListNeverFails ==
    qres # ListFailed

\* ---------------------------------------------------------------- C29
\* C29: once shutdown has cancelled the worker, the worker terminates and
\* shutdown completes, whether the queue is empty or not; a terminated
\* worker stays terminated and nothing is taken from the queue from the
\* cancellation on.
C29_WorkerCancellable ==
    /\ (life = "awaiting") ~> (life = "complete" /\ wpc = "cancelled")
    /\ [][ /\ wpc \in {"cancelling", "cancelled"}
              => /\ queue' = queue
                 /\ cur' = cur
                 /\ processed' = processed
           /\ wpc = "cancelled" => wpc' = "cancelled" ]_vars

C29_Witness ==
    /\ life = "complete"
    /\ wpc = "cancelled"
    /\ queue # <<>>

\* ---------------------------------------------------------------- C30
\* C30: a record that is inactive is never active again, whatever the
\* interleaving of the worker's steps and a registerAction request's steps.
C30_ActiveMonotone ==
    [][ \A n \in DOMAIN nbas : ~nbas[n].active => ~nbas'[n].active ]_vars

\* ---------------------------------------------------------------- C31
\* C31: the log holds at most one system-generated entry (status new,
\* acted_by unset) for each record, also when an event is delivered again
\* after its processing was left between the log append and the mark.
SystemEntries(log, nba_id) ==
    { k \in DOMAIN log : /\ log[k].nba_id = nba_id
                          /\ log[k].status = NBA_STATUS_NEW
                          /\ log[k].acted_by = None }

C31_OneSystemEntry ==
    \A n \in DOMAIN nbas : Cardinality(SystemEntries(events, n)) <= 1

\* ---------------------------------------------------------------- C32
\* C32: a registerAction(nbaId, s) call, s accepted or rejected, on an NBA
\* that is inactive with status new is not refused: it sets the status to
\* s, appends a log entry of the acting user for (nbaId, s), answers with
\* that entry, and the NBA is inactive after each of its steps.
C32_ActionOnInactive ==
    [][ \A t \in Threads :
           LET n == aargs[t].nba_id
           IN  (apc[t] # "idle" /\ apc'[t] # apc[t] /\ n \in DOMAIN nbas)
               => /\ (apc[t] = "get" /\ ~nbas[n].active /\ nbas[n].status = NBA_STATUS_NEW)
                     => (apc'[t] = "update_read" /\ ares'[t] = NoAnswer /\ nbas' = nbas)
                  /\ (apc[t] = "update_read" /\ ~nbas[n].active)
                     => (apc'[t] = "update_write" /\ ~aexisting'[t].active /\ nbas' = nbas)
                  /\ (apc[t] = "update_write" /\ ~aexisting[t].active)
                     => /\ apc'[t] = "add"
                        /\ nbas'[n].status = aargs[t].status_value
                        /\ ~nbas'[n].active
                  /\ (apc[t] = "add" /\ ~nbas[n].active)
                     => /\ ~nbas'[n].active
                        /\ ares'[t].kind = "ok"
                        /\ ares'[t].nba_id = n
                        /\ ares'[t].status = aargs[t].status_value
                        /\ Len(events') = Len(events) + 1
                        /\ Len(events') \in HumanEntries(events', n)
                        /\ events'[Len(events')].status = aargs[t].status_value
                        /\ events'[Len(events')].id = ares'[t].event_id ]_vars

\* An NBA was superseded by a later event's NBA (whose system entry is
\* the second of the log) and then acted on: the request was answered
\* with the entry it appended, the third, and the NBA is inactive.
C32_Witness ==
    \E t \in Threads :
        /\ apc[t] = "idle"
        /\ ares[t].kind = "ok"
        /\ Len(events) = 3
        /\ events[3].id = ares[t].event_id
        /\ events[3].nba_id = ares[t].nba_id
        /\ events[3].acted_by = DEFAULT_USER
        /\ events[2].nba_id # ares[t].nba_id
        /\ events[2].acted_by = None
        /\ ~nbas[ares[t].nba_id].active
        /\ nbas[ares[t].nba_id].status = ares[t].status

\* ---------------------------------------------------------------- C33
\* C33: a registerAction(nbaId, s) call that finds the NBA with status s,
\* accepted or rejected, looks the log up; if the log then holds no entry
\* of a user for (nbaId, s), the call answers conflict, appends nothing
\* and changes no record.
ActionEntries(log, nba_id, status) ==
    { k \in HumanEntries(log, nba_id) : log[k].status = status }

C33_ConflictWithoutEntry ==
    [][ \A t \in Threads :
           LET n == aargs[t].nba_id
               s == aargs[t].status_value
           IN  (apc[t] # "idle" /\ apc'[t] # apc[t] /\ n \in DOMAIN nbas)
               => /\ (apc[t] = "get" /\ nbas[n].status = s)
                     => (apc'[t] = "find" /\ nbas' = nbas /\ events' = events)
                  /\ (apc[t] = "find" /\ ActionEntries(events, n, s) = {})
                     => /\ apc'[t] = "idle"
                        /\ ares'[t] = Answer("conflict", NoRecord)
                        /\ nbas' = nbas
                        /\ events' = events ]_vars

\* A request for the status the NBA has is about to look the log up, and
\* the log holds no entry of a user for it: the request that set the
\* status has not appended its entry yet.
C33_Witness ==
    \E t \in Threads, u \in Threads :
        /\ t # u
        /\ apc[t] = "find"
        /\ nbas[aargs[t].nba_id].status = aargs[t].status_value
        /\ ActionEntries(events, aargs[t].nba_id, aargs[t].status_value) = {}
        /\ apc[u] = "add"
        /\ aargs[u] = aargs[t]

\* ---------------------------------------------------------------- C34
\* C34: shutdown cancels the worker only while it waits on the queue; from
\* the cancellation on no event is in flight: the event taken last from
\* the queue has its result and is marked processed, and every event that
\* has an NBA is marked processed.
C34_NoEventInterrupted ==
    /\ [](life # "serving"
           => /\ wpc \in {"cancelling", "cancelled"}
              /\ cur = NoPayload
              /\ wi = 0 /\ wnba = 0 /\ wsnap = <<>> /\ wexisting = NoRecord
              /\ wres # NoResult => wres.event_id \in processed
              /\ MappedEvents(event_to_nba_id) \subseteq processed)
    /\ [][life = "serving" /\ life' # "serving" => wpc = "consume"]_vars

\* Shutdown is complete after the worker created an NBA for the event it
\* took last, with another event still in the queue.
C34_Witness ==
    /\ life = "complete"
    /\ wpc = "cancelled"
    /\ wres.action = "created"
    /\ wres.event_id \in processed
    /\ queue # <<>>

\* ---------------------------------------------------------------- C35
\* C35: a run of process that ends without a result (it raised) ends the
\* worker; once process has raised, the worker is gone for good: nothing is
\* taken from the queue, no event is processed and the stores stay as
\* they are, while events can still be enqueued behind the ones waiting.
IsPrefix(q, r) == Len(q) <= Len(r) /\ SubSeq(r, 1, Len(q)) = q

C35_RaiseEndsConsumption ==
    /\ [][ (cur # NoPayload /\ cur' = NoPayload /\ wres' = NoResult)
            => wpc' = "dead" ]_vars
    /\ [][ wpc = "dead"
            => /\ wpc' = "dead"
               /\ IsPrefix(queue, queue')
               /\ cur' = NoPayload
               /\ <<nbas, event_to_nba_id, events, processed>>'
                     = <<nbas, event_to_nba_id, events, processed>> ]_vars
    /\ []((wpc = "dead" /\ Len(queue) < MaxQueue) => ENABLED Enqueue)

\* The worker is gone and two events wait in the queue, neither of them
\* processed.
C35_Witness ==
    /\ wpc = "dead"
    /\ Len(queue) >= 2
    /\ \A k \in DOMAIN queue : queue[k].event_id \notin processed

====
